---- MODULE Spec2Model ----
(***************************************************************************)
(* The Meshy asset flow of .crew/flows/meshy_asset_flow.py: the with_retry *)
(* decorator, the MeshyAssetState record and the five stages of            *)
(* MeshyAssetFlow (generate -> rig -> animate -> retexture -> review).     *)
(*                                                                         *)
(* Four specifications share the variables:                                *)
(*   Spec        a pipeline run (kickoff of the flow on a fresh state);    *)
(*   SpecFair    Spec with every started call running to its end;          *)
(*   SpecRetry   with_retry around an arbitrary operation, for every       *)
(*               policy of the bounded policy space;                       *)
(*   SpecReview  hitl_review called directly on an arbitrary state.        *)
(***************************************************************************)
EXTENDS Integers, Sequences, FiniteSets, TLC

VARIABLES
    state,           \* self.state, the MeshyAssetState record
    pc,              \* the function the thread of control runs next
    policy,          \* the arguments of the with_retry in force
    attempt,         \* wrapper: the loop variable of `for attempt in range(...)`
    current_delay,   \* wrapper: current_delay
    last_exception,  \* wrapper: last_exception
    returned,        \* the value the last completed function returned
    raised,          \* the exception that left the run, None while there is none
    log,             \* what the run did, in order: calls, submissions, sleeps
    aliased          \* review_results["errors"] is the list object state.errors

vars == <<state, pc, policy, attempt, current_delay, last_exception,
          returned, raised, log, aliased>>

----------------------------------------------------------------------------
(* Bounds of the model.                                                    *)

\* the external services fail with one of this many distinct messages
NumRemoteErrors == 2
\* SpecRetry: policies with max_attempts in 1..MaxAttemptsBound
MaxAttemptsBound == 3
\* SpecRetry: policies with delay in 1..MaxDelay
MaxDelay == 2
\* SpecRetry: policies with backoff in 1..MaxBackoff
MaxBackoff == 3
\* SpecReview: the error list review starts from has at most this many entries
MaxPriorErrors == 1
\* SpecReview: at most this many errors are logged after review has returned
MaxLaterErrors == 1

----------------------------------------------------------------------------
(* Python values.                                                          *)

None == [type |-> "None"]

\* an exception object: its class and str(e)
Exc(type, msg) == [type |-> type, msg |-> msg]

\* the classes an exception of class `type` is an instance of (lines 15-30)
Mro(type) ==
    {type, "Exception"} \cup
    (IF type \in {"RetryExhaustedError", "AnimationStateError", "MeshyFlowError"}
     THEN {"MeshyFlowError"} ELSE {})

\* an except clause that catches whatever is raised
CatchesAll(exceptions, e) == TRUE

\* `except exceptions as e` catches e (line 57)
Catches(exceptions, e) == (Mro(e.type) \cap exceptions) # {}

\* what a call of a function did
Return(value) == [raised |-> FALSE, value |-> value]
Raise(e) == [raised |-> TRUE, exc |-> e]

\* entries of the log
CallEv(func, n) == [ev |-> "call", func |-> func, n |-> n]
ReturnEv(func, value) == [ev |-> "return", func |-> func, value |-> value]
RaiseEv(func, e) == [ev |-> "raise", func |-> func, exc |-> e]
SleepEv(d) == [ev |-> "sleep", delay |-> d]
SubmitEv(service, args, out) ==
    [ev |-> "submit", service |-> service, args |-> args, out |-> out]

----------------------------------------------------------------------------
(* with_retry (lines 33-75).                                               *)

\* a loop that runs one iteration too many
InRangeOffByOne(a, max_attempts) == a <= max_attempts

\* line 54: `for attempt in range(max_attempts)` has an iteration for a
InRange(a, max_attempts) == a < max_attempts

\* a wrapper that sleeps after every failed attempt, the last included
MoreAttemptsAlways(a, max_attempts) == a < max_attempts

\* a wrapper that skips the sleep before the last attempt
MoreAttemptsTooFew(a, max_attempts) == a < max_attempts - 2

\* line 59: the failed attempt is followed by a sleep
MoreAttempts(a, max_attempts) == a < max_attempts - 1

\* a linear backoff in place of the exponential one
NextDelayLinear(d, backoff) == d + backoff

\* line 65: current_delay *= backoff
NextDelay(d, backoff) == d * backoff

\* the raise without its `from last_exception`
RetryExhaustedUnchained(func, max_attempts, cause) ==
    [type |-> "RetryExhaustedError",
     msg |-> "Operation " \o func \o " failed after "
             \o ToString(max_attempts) \o " attempts",
     cause |-> None]

\* lines 69-71: raise RetryExhaustedError(...) from last_exception
RetryExhausted(func, max_attempts, cause) ==
    [type |-> "RetryExhaustedError",
     msg |-> "Operation " \o func \o " failed after "
             \o ToString(max_attempts) \o " attempts",
     cause |-> cause]

\* lines 51-52: the wrapper is entered
EnterWrapper(p) ==
    /\ attempt' = 0
    /\ current_delay' = p.delay
    /\ last_exception' = None

\* the arguments of the decorators of lines 131, 150, 171 and 207
StageMaxAttempts == 3
StageDelay == 2
StageBackoff == 2

\* the policy a stage is decorated with; exceptions is the default of line 37
PolicyOf(func) ==
    [max_attempts |-> StageMaxAttempts, delay |-> StageDelay,
     backoff |-> StageBackoff, exceptions |-> {"Exception"}]

\* the functions decorated with with_retry (lines 131, 150, 171, 207); `op`
\* is the arbitrary operation of SpecRetry
RetryWrapped ==
    {"generate_static_model", "rig_model", "animate_variants",
     "retexture_variant", "op"}

\* a flow whose retexture stage listens to rig_model
ListenerRetextureFirst(func) ==
    CASE func = "generate_static_model" -> "rig_model"
      [] func = "rig_model" -> "retexture_variant"
      [] func = "retexture_variant" -> "animate_variants"
      [] func = "animate_variants" -> "hitl_review"
      [] OTHER -> "done"

\* the function that runs once `func` has returned: the @listen chain of the
\* flow (lines 130, 149, 170, 206, 248); any other function has no listener
Listener(func) ==
    CASE func = "generate_static_model" -> "rig_model"
      [] func = "rig_model" -> "animate_variants"
      [] func = "animate_variants" -> "retexture_variant"
      [] func = "retexture_variant" -> "hitl_review"
      [] OTHER -> "done"

\* One iteration of the loop of lines 54-67 around a call of func that did
\* `out` and logged `events`, with the raise of lines 69-71 when the loop
\* ends.  A return leaves the wrapper and the flow calls the listener, whose
\* own wrapper is entered if it has one.
wrapper(func, out, events) ==
    LET called == log \o <<CallEv(func, attempt + 1)>> \o events
        sleeps == MoreAttempts(attempt, policy.max_attempts)
        ends == ~InRange(attempt + 1, policy.max_attempts)
    IN
    IF ~out.raised
    THEN \* line 56: return func(*args, **kwargs)
         /\ returned' = out.value
         /\ raised' = raised
         /\ pc' = Listener(func)
         /\ log' = called \o <<ReturnEv(func, out.value)>>
         /\ IF Listener(func) \in RetryWrapped
            THEN /\ policy' = PolicyOf(Listener(func))
                 /\ EnterWrapper(PolicyOf(Listener(func)))
            ELSE UNCHANGED <<policy, attempt, current_delay, last_exception>>
    ELSE IF ~Catches(policy.exceptions, out.exc)
    THEN \* the exception is not one of line 57's: it leaves the wrapper
         /\ raised' = out.exc
         /\ pc' = "failed"
         /\ log' = called \o <<RaiseEv(func, out.exc)>>
         /\ UNCHANGED <<returned, policy, attempt, current_delay,
                        last_exception>>
    ELSE \* lines 57-67, and lines 69-71 after the last iteration
         /\ last_exception' = out.exc
         /\ log' = called \o <<RaiseEv(func, out.exc)>>
                    \o (IF sleeps THEN <<SleepEv(current_delay)>> ELSE <<>>)
         /\ current_delay' =
                IF sleeps THEN NextDelay(current_delay, policy.backoff)
                ELSE current_delay
         /\ attempt' = attempt + 1
         /\ raised' =
                IF ends
                THEN RetryExhausted(func, policy.max_attempts, out.exc)
                ELSE raised
         /\ pc' = IF ends THEN "failed" ELSE pc
         /\ UNCHANGED <<returned, policy>>

----------------------------------------------------------------------------
(* MeshyAssetState (lines 78-90).                                          *)

EmptyDict == [k \in {} |-> None]

MeshyAssetState(id, species, prompt, retexture_prompt) ==
    [id |-> id, species |-> species, prompt |-> prompt,
     retexture_prompt |-> retexture_prompt,
     static_task_id |-> "", rigged_task_id |-> "", animations |-> <<>>,
     retexture_task_id |-> "", review_results |-> EmptyDict, errors |-> <<>>]

\* the inputs a run is started with
Ids == {"asset-1"}
Species == {"otter"}
Prompts == {"a river otter"}
RetexturePrompts == {"albino"}

----------------------------------------------------------------------------
(* The external task-submission services.                                  *)

RemoteErrors == {"E" \o ToString(i) : i \in 1..NumRemoteErrors}

\* the task id the services give the n-th task submitted: a fresh handle
TaskId(n) == "T" \o ToString(n)

\* what service.submit_task does with the n-th submission of a run: it
\* returns a result carrying a task id, or raises
SubmitOutcomes(n) ==
    {[ok |-> TRUE, task_id |-> TaskId(n)]} \cup
    {[ok |-> FALSE, error |-> Exc("RemoteError", m)] : m \in RemoteErrors}

\* the result object of a submission
Result(ext) == [task_id |-> ext.task_id]

\* the number of submissions made so far
Submitted == Len(SelectSeq(log, LAMBDA e : e.ev = "submit"))

----------------------------------------------------------------------------
(* MeshyAssetFlow (lines 93-286).  A stage function maps the state, its    *)
(* argument and what the services answer to the new state, what the call   *)
(* did (`out`) and the submissions it made (`events`).                     *)

\* an error log that forgets what it held
_log_errorOverwrite(st, error) == [st EXCEPT !.errors = <<error>>]

\* an error log that records nothing
_log_errorDrop(st, error) == st

\* lines 125-128
_log_error(st, error) == [st EXCEPT !.errors = Append(@, error)]

\* lines 132-147
generate_static_model(st, ext) ==
    LET ev == <<SubmitEv("text3d",
                         [species |-> st.species, prompt |-> st.prompt], ext)>>
    IN
    IF ext.ok
    THEN [state |-> [st EXCEPT !.static_task_id = ext.task_id],
          out |-> Return(Result(ext)), events |-> ev]
    ELSE [state |-> _log_error(st, "generate_static_model failed: "
                                   \o ext.error.msg),
          out |-> Raise(ext.error), events |-> ev]

\* lines 151-168
rig_model(st, static_result, ext) ==
    LET ev == <<SubmitEv("rigging",
                         [species |-> st.species,
                          model_id |-> static_result.task_id], ext)>>
    IN
    IF ext.ok
    THEN [state |-> [st EXCEPT !.rigged_task_id = ext.task_id],
          out |-> Return(Result(ext)), events |-> ev]
    ELSE [state |-> _log_error(st, "rig_model failed: " \o ext.error.msg),
          out |-> Raise(ext.error), events |-> ev]

\* an animations list with the two entries in the wrong order
AnimationListSwapped(walk, attack) ==
    <<[name |-> "attack", task_id |-> attack.task_id],
      [name |-> "walk", task_id |-> walk.task_id]>>

\* lines 195-198
AnimationList(walk, attack) ==
    <<[name |-> "walk", task_id |-> walk.task_id],
      [name |-> "attack", task_id |-> attack.task_id]>>

\* an animate stage that records walk before attack is submitted
animate_variantsEager(st, rigged_result, walk, attack) ==
    LET sub(animation_id, ext) ==
            SubmitEv("animation",
                     [species |-> st.species,
                      model_id |-> rigged_result.task_id,
                      animation_id |-> animation_id], ext)
        early == [st EXCEPT !.animations =
                     <<[name |-> "walk", task_id |-> walk.task_id]>>]
    IN
    IF ~walk.ok
    THEN [state |-> [st EXCEPT !.errors =
                        Append(@, "animate_variants failed: "
                                  \o walk.error.msg)],
          out |-> Raise(walk.error), events |-> <<sub("1", walk)>>]
    ELSE IF ~attack.ok
    THEN [state |-> [early EXCEPT !.errors =
                        Append(@, "animate_variants failed: "
                                  \o attack.error.msg)],
          out |-> Raise(attack.error),
          events |-> <<sub("1", walk), sub("4", attack)>>]
    ELSE [state |-> [st EXCEPT !.animations = AnimationList(walk, attack)],
          out |-> Return([walk |-> Result(walk), attack |-> Result(attack)]),
          events |-> <<sub("1", walk), sub("4", attack)>>]

\* an animate stage that submits attack whether or not walk was accepted
animate_variantsBoth(st, rigged_result, walk, attack) ==
    LET sub(animation_id, ext) ==
            SubmitEv("animation",
                     [species |-> st.species,
                      model_id |-> rigged_result.task_id,
                      animation_id |-> animation_id], ext)
        failed(e) == [st EXCEPT !.errors =
                         Append(@, "animate_variants failed: " \o e.msg)]
        both == <<sub("1", walk), sub("4", attack)>>
    IN
    IF ~walk.ok
    THEN [state |-> failed(walk.error), out |-> Raise(walk.error),
          events |-> both]
    ELSE IF ~attack.ok
    THEN [state |-> failed(attack.error), out |-> Raise(attack.error),
          events |-> both]
    ELSE [state |-> [st EXCEPT !.animations = AnimationList(walk, attack)],
          out |-> Return([walk |-> Result(walk), attack |-> Result(attack)]),
          events |-> both]

\* lines 172-204: walk is submitted, then attack, then animations is assigned
animate_variants(st, rigged_result, walk, attack) ==
    LET sub(animation_id, ext) ==
            SubmitEv("animation",
                     [species |-> st.species,
                      model_id |-> rigged_result.task_id,
                      animation_id |-> animation_id], ext)
        failed(e) == _log_error(st, "animate_variants failed: " \o e.msg)
    IN
    IF ~walk.ok
    THEN [state |-> failed(walk.error), out |-> Raise(walk.error),
          events |-> <<sub("1", walk)>>]
    ELSE IF ~attack.ok
    THEN [state |-> failed(attack.error), out |-> Raise(attack.error),
          events |-> <<sub("1", walk), sub("4", attack)>>]
    ELSE [state |-> [st EXCEPT !.animations = AnimationList(walk, attack)],
          out |-> Return([walk |-> Result(walk), attack |-> Result(attack)]),
          events |-> <<sub("1", walk), sub("4", attack)>>]

\* a retexture of the rigged model in place of the static one
RetextureModelIdRigged(st) == st.rigged_task_id

\* line 216: model_id=self.state.static_task_id
RetextureModelId(st) == st.static_task_id

\* lines 208-226
retexture_variant(st, anim_results, ext) ==
    LET ev == <<SubmitEv("retexture",
                         [species |-> st.species,
                          model_id |-> RetextureModelId(st),
                          prompt |-> st.retexture_prompt], ext)>>
    IN
    IF ext.ok
    THEN [state |-> [st EXCEPT !.retexture_task_id = ext.task_id],
          out |-> Return(Result(ext)), events |-> ev]
    ELSE [state |-> _log_error(st, "retexture_variant failed: "
                                   \o ext.error.msg),
          out |-> Raise(ext.error), events |-> ev]

\* lines 228-246; index counts from 0 as in the source
_get_animation_task_id(st, index, name) ==
    IF Len(st.animations) <= index
    THEN Raise(Exc("AnimationStateError",
                   "Animation '" \o name \o "' not found at index "
                   \o ToString(index) \o ". Only "
                   \o ToString(Len(st.animations))
                   \o " animations available."))
    ELSE Return(IF "task_id" \in DOMAIN st.animations[index + 1]
                THEN st.animations[index + 1].task_id
                ELSE "unknown")

\* review put the sentinel in place of the task id of animation `name`
SentinelEv(name) == [ev |-> "sentinel", func |-> "hitl_review", name |-> name]

\* a review that approves whatever it is shown
ApprovedAlways(task_id) == TRUE

\* lines 278-279: the entry is approved unless its task id is the sentinel
Approved(task_id) == task_id # "missing"

\* the list itself handed on, in place of a copy of it
ListAlias(list) == [items |-> list, same |-> TRUE]

\* line 282: list.copy() makes a new list object with the same items
ListCopy(list) == [items |-> list, same |-> FALSE]

\* line 127 appends to the list object in place: a dict entry that is the
\* same object shows the appended item too
InPlace(st, shared) ==
    IF shared THEN [st EXCEPT !.review_results.errors = st.errors] ELSE st

\* lines 249-286
hitl_review(st, retexture_result) ==
    LET w == _get_animation_task_id(st, 0, "walk")
        st1 == IF w.raised THEN _log_error(st, w.exc.msg) ELSE st
        walk_task_id == IF w.raised THEN "missing" ELSE w.value
        a == _get_animation_task_id(st1, 1, "attack")
        st2 == IF a.raised THEN _log_error(st1, a.exc.msg) ELSE st1
        attack_task_id == IF a.raised THEN "missing" ELSE a.value
        review_results ==
            [static |-> [approved |-> TRUE, rating |-> 8],
             walk |-> [approved |-> Approved(walk_task_id), rating |-> 7],
             attack |-> [approved |-> Approved(attack_task_id), rating |-> 9],
             variant |-> [approved |-> TRUE, rating |-> 8],
             notes |-> "All variants look good, ready for integration",
             errors |-> ListCopy(st2.errors).items]
    IN
    [state |-> [st2 EXCEPT !.review_results = review_results],
     out |-> Return(review_results),
     aliased |-> ListCopy(st2.errors).same,
     events |-> (IF w.raised THEN <<SentinelEv("walk")>> ELSE <<>>)
                \o (IF a.raised THEN <<SentinelEv("attack")>> ELSE <<>>)]

----------------------------------------------------------------------------
(* Spec: a pipeline run.                                                   *)

Init ==
    /\ state \in {MeshyAssetState(i, s, p, r) :
                    i \in Ids, s \in Species, p \in Prompts,
                    r \in RetexturePrompts}
    /\ pc = "generate_static_model"
    /\ policy = PolicyOf("generate_static_model")
    /\ attempt = 0
    /\ current_delay = policy.delay
    /\ last_exception = None
    /\ returned = None
    /\ raised = None
    /\ log = <<>>
    /\ aliased = FALSE

\* one attempt of the start method (line 130)
GenerateStaticModel ==
    /\ pc = "generate_static_model"
    /\ \E ext \in SubmitOutcomes(Submitted + 1) :
          LET r == generate_static_model(state, ext) IN
          /\ state' = r.state
          /\ wrapper("generate_static_model", r.out, r.events)
    /\ UNCHANGED aliased

\* one attempt of rig_model on the result of generate_static_model (line 149)
RigModel ==
    /\ pc = "rig_model"
    /\ \E ext \in SubmitOutcomes(Submitted + 1) :
          LET r == rig_model(state, returned, ext) IN
          /\ state' = r.state
          /\ wrapper("rig_model", r.out, r.events)
    /\ UNCHANGED aliased

\* one attempt of animate_variants on the result of rig_model (line 170)
AnimateVariants ==
    /\ pc = "animate_variants"
    /\ \E walk \in SubmitOutcomes(Submitted + 1),
          attack \in SubmitOutcomes(Submitted + 2) :
          LET r == animate_variants(state, returned, walk, attack) IN
          /\ state' = r.state
          /\ wrapper("animate_variants", r.out, r.events)
    /\ UNCHANGED aliased

\* one attempt of retexture_variant on the result of animate_variants
\* (line 206)
RetextureVariant ==
    /\ pc = "retexture_variant"
    /\ \E ext \in SubmitOutcomes(Submitted + 1) :
          LET r == retexture_variant(state, returned, ext) IN
          /\ state' = r.state
          /\ wrapper("retexture_variant", r.out, r.events)
    /\ UNCHANGED aliased

\* hitl_review, which no with_retry wraps (line 248)
HitlReview ==
    /\ pc = "hitl_review"
    /\ LET r == hitl_review(state, returned) IN
       /\ state' = r.state
       /\ aliased' = r.aliased
       /\ returned' = r.out.value
       /\ log' = log \o <<CallEv("hitl_review", 1)>> \o r.events
                     \o <<ReturnEv("hitl_review", r.out.value)>>
    /\ pc' = "done"
    /\ UNCHANGED <<policy, attempt, current_delay, last_exception, raised>>

Next ==
    \/ GenerateStaticModel
    \/ RigModel
    \/ AnimateVariants
    \/ RetextureVariant
    \/ HitlReview

Spec == Init /\ [][Next]_vars

\* A run is one thread of control that goes on as long as each call it makes
\* comes back: a step that can be taken is taken.
SpecFair == Spec /\ WF_vars(Next)

----------------------------------------------------------------------------
(* SpecRetry: with_retry around an arbitrary operation `op`.               *)

ErrorTypes == {"ValueError", "KeyError"}
Values == {"v1", "v2"}

\* the `exceptions` arguments tried: the default and narrower ones
ExceptionTuples == {{"Exception"}, {"ValueError"}, {"KeyError"}}

Policies ==
    [max_attempts : 1..MaxAttemptsBound, delay : 1..MaxDelay,
     backoff : 1..MaxBackoff, exceptions : ExceptionTuples]

\* what one call of op may do
OpOutcomes ==
    {Return([value |-> v]) : v \in Values} \cup
    {Raise(Exc(t, m)) : t \in ErrorTypes, m \in RemoteErrors}

InitRetry ==
    /\ state = MeshyAssetState("", "", "", "")
    /\ pc = "op"
    /\ policy \in Policies
    /\ attempt = 0
    /\ current_delay = policy.delay
    /\ last_exception = None
    /\ returned = None
    /\ raised = None
    /\ log = <<>>
    /\ aliased = FALSE

\* the wrapper calls op once more
CallOp ==
    /\ pc = "op"
    /\ \E out \in OpOutcomes : wrapper("op", out, <<>>)
    /\ UNCHANGED <<state, aliased>>

NextRetry == CallOp

SpecRetry == InitRetry /\ [][NextRetry]_vars

----------------------------------------------------------------------------
(* SpecReview: hitl_review called on a state built by hand, as a test of   *)
(* the review stage builds it.                                             *)

\* at most this many entries in the animations list review is given
MaxAnimations == 2

SeqsUpTo(S, n) == UNION {[1..k -> S] : k \in 0..n}

\* an entry of state.animations: a dict with a name and, unless it lacks the
\* key, a task id, which may happen to be the string "missing"
AnimationEntries ==
    {[name |-> n] : n \in {"walk", "attack"}} \cup
    {[name |-> n, task_id |-> t] : n \in {"walk", "attack"},
                                   t \in {"W1", "missing"}}

PriorErrors == {"rig_model failed: E1"}

ReviewStates ==
    {[MeshyAssetState("asset-1", "otter", "a river otter", "albino")
        EXCEPT !.animations = an, !.errors = er, !.static_task_id = s,
               !.rigged_task_id = r, !.retexture_task_id = t] :
       an \in SeqsUpTo(AnimationEntries, MaxAnimations),
       er \in SeqsUpTo(PriorErrors, MaxPriorErrors),
       s \in {"", "S1"}, r \in {"", "R1"}, t \in {"", "X1"}}

InitReview ==
    /\ state \in ReviewStates
    /\ pc = "hitl_review"
    /\ policy = PolicyOf("retexture_variant")
    /\ attempt = 0
    /\ current_delay = policy.delay
    /\ last_exception = None
    /\ returned = None
    /\ raised = None
    /\ log = <<>>
    /\ aliased = FALSE

\* an error logged after review has returned
LogErrorEv(error) == [ev |-> "log_error", func |-> "_log_error", error |-> error]

LaterErrors == {"late failure"}

\* _log_error called once review has returned (lines 125-128)
LogErrorLater ==
    /\ pc = "done"
    /\ Len(SelectSeq(log, LAMBDA e : e.ev = "log_error")) < MaxLaterErrors
    /\ \E error \in LaterErrors :
          /\ state' = InPlace(_log_error(state, error), aliased)
          /\ log' = log \o <<LogErrorEv(error)>>
    /\ UNCHANGED <<pc, policy, attempt, current_delay, last_exception,
                   returned, raised, aliased>>

NextReview ==
    \/ HitlReview
    \/ LogErrorLater

SpecReview == InitReview /\ [][NextReview]_vars

----------------------------------------------------------------------------
(* Reading the log.                                                        *)

Events(kind) == SelectSeq(log, LAMBDA e : e.ev = kind)
EventsOf(kind, func) == SelectSeq(log, LAMBDA e : e.ev = kind /\ e.func = func)

\* how often func was called so far
Calls(func) == Len(EventsOf("call", func))

RECURSIVE Pow(_, _)
Pow(b, e) == IF e = 0 THEN 1 ELSE b * Pow(b, e - 1)

Last(seq) == seq[Len(seq)]

----------------------------------------------------------------------------
(* Claims about with_retry, under SpecRetry.                               *)

\* every call of op so far raised an exception the policy retries
OpAlwaysFailedRetryable ==
    /\ Events("return") = <<>>
    /\ \A i \in 1..Len(Events("raise")) :
          Catches(policy.exceptions, Events("raise")[i].exc)

\* C1: with max_attempts = n >= 1 and an operation that fails with a
\* retryable error on every call, the wrapper goes on calling until the n-th
\* call, never beyond it, and then raises RetryExhaustedError whose cause is
\* the error of the n-th call.
C1_ExhaustionAfterNCalls ==
    OpAlwaysFailedRetryable =>
        IF Calls("op") < policy.max_attempts
        THEN pc = "op" /\ raised = None
        ELSE /\ Calls("op") = policy.max_attempts
             /\ pc = "failed"
             /\ raised.type = "RetryExhaustedError"
             /\ raised.cause = Last(Events("raise")).exc

\* three retryable failures with two different errors, the last one chained
C1_Witness ==
    /\ OpAlwaysFailedRetryable
    /\ policy.max_attempts = 3
    /\ Calls("op") = 3
    /\ pc = "failed"
    /\ Events("raise")[1].exc # Events("raise")[3].exc
    /\ raised.cause = Events("raise")[3].exc

\* C2: when op fails on calls 1..k-1 and returns on call k <= n, the wrapper
\* has called it exactly k times, returns the value of call k, has slept
\* exactly k-1 times, and the return is the last thing that happens.
C2_SuccessAtK ==
    Events("return") # <<>> =>
        LET k == Calls("op") IN
        /\ k <= policy.max_attempts
        /\ Len(Events("return")) = 1
        /\ Len(Events("raise")) = k - 1
        /\ Last(log) = ReturnEv("op", returned)
        /\ log[Len(log) - 1] = CallEv("op", k)
        /\ Len(Events("sleep")) = k - 1
        /\ pc = "done"
        /\ raised = None
        /\ ~ENABLED NextRetry

\* op returns on its third call
C2_Witness ==
    /\ Calls("op") = 3
    /\ Events("return") # <<>>
    /\ returned = [value |-> "v2"]
    /\ Len(Events("sleep")) = 2

\* C3: the entry of the log right before attempt i >= 2 is a sleep of
\* delay * backoff^(i-2), and nothing else sleeps.
C3_BackoffDelays ==
    /\ \A p \in 1..Len(log) :
          (log[p].ev = "call" /\ log[p].n >= 2) =>
              log[p - 1] = SleepEv(policy.delay * Pow(policy.backoff, log[p].n - 2))
    /\ \A p \in 1..Len(log) :
          log[p].ev = "sleep" =>
              /\ p > 1 /\ log[p - 1].ev = "raise"
              /\ pc = "op" \/ (p < Len(log) /\ log[p + 1].ev = "call")
    /\ \A j \in 1..Len(Events("sleep")) :
          Events("sleep")[j].delay =
              IF j = 1 THEN policy.delay
              ELSE Events("sleep")[j - 1].delay * policy.backoff

\* a third attempt after sleeps of 2 and then 6
C3_Witness ==
    /\ policy.delay = 2 /\ policy.backoff = 3
    /\ Calls("op") = 3
    /\ Events("sleep") = <<SleepEv(2), SleepEv(6)>>

----------------------------------------------------------------------------
(* Claims about a pipeline run, under Spec.                                *)

Stages ==
    <<"generate_static_model", "rig_model", "animate_variants",
      "retexture_variant", "hitl_review">>

\* the position of func in the pipeline
StageIndex(func) == CHOOSE i \in 1..Len(Stages) : Stages[i] = func

\* the state field a stage is there to write (the table of the design)
OutputField(func) ==
    CASE func = "generate_static_model" -> "static_task_id"
      [] func = "rig_model" -> "rigged_task_id"
      [] func = "animate_variants" -> "animations"
      [] func = "retexture_variant" -> "retexture_task_id"
      [] func = "hitl_review" -> "review_results"

\* the value a field has in a fresh state
InitialValue(field) == MeshyAssetState("", "", "", "")[field]

\* the function names of the events of one kind, in order
Funcs(kind) == [i \in 1..Len(Events(kind)) |-> Events(kind)[i].func]

\* the stage whose attempt failed last
FailedStage == Last(Events("raise")).func

\* C4: the stages are called in the order generate_static_model, rig_model,
\* animate_variants, retexture_variant, hitl_review; the first attempt of a
\* stage comes right after the return of its predecessor, so retexture_variant
\* is never called before animate_variants has returned; a run that completes
\* has had each stage return once, in that order.
C4_StageOrder ==
    /\ LET c == Funcs("call") IN
       \A i \in 1..(Len(c) - 1) : StageIndex(c[i]) <= StageIndex(c[i + 1])
    /\ \A p \in 1..Len(log) :
          (log[p].ev = "call" /\ log[p].n = 1 /\ StageIndex(log[p].func) > 1) =>
              /\ log[p - 1].ev = "return"
              /\ log[p - 1].func = Stages[StageIndex(log[p].func) - 1]
    /\ Calls("retexture_variant") > 0 =>
          Len(EventsOf("return", "animate_variants")) = 1
    /\ pc \in {"done", "failed"} \/ StageIndex(pc) = Len(Funcs("return")) + 1
    /\ pc = "done" => Funcs("return") = Stages

\* a completed run in which animate_variants and retexture_variant each
\* needed a second attempt
C4_Witness ==
    /\ pc = "done"
    /\ Calls("animate_variants") = 2
    /\ Calls("retexture_variant") = 2

\* C5: when a retry-wrapped stage exhausts its retries the run ends with
\* RetryExhaustedError whose cause is the failure of the last submission, no
\* later stage is called or submits anything, the output fields of that stage
\* and of all later ones still hold their initial values, and review_results
\* is empty.
C5_ExhaustionIsFatal ==
    pc = "failed" =>
        /\ raised.type = "RetryExhaustedError"
        /\ raised.cause = Last(Events("submit")).out.error
        /\ raised.cause.type = "RemoteError"
        /\ Last(log) = RaiseEv(FailedStage, raised.cause)
        /\ Calls(FailedStage) = StageMaxAttempts
        /\ \A i \in 1..Len(Stages) :
              i >= StageIndex(FailedStage) =>
                  /\ i > StageIndex(FailedStage) => Calls(Stages[i]) = 0
                  /\ state[OutputField(Stages[i])]
                         = InitialValue(OutputField(Stages[i]))
        /\ FailedStage = "rig_model" =>
              \A e \in {"animation", "retexture"} :
                  \A i \in 1..Len(Events("submit")) :
                      Events("submit")[i].service # e
        /\ state.review_results = EmptyDict
        /\ ~ENABLED Next

\* rig_model exhausts its retries after generate_static_model succeeded, the
\* last of its three failures differing from the first
C5_Witness ==
    /\ pc = "failed"
    /\ FailedStage = "rig_model"
    /\ state.static_task_id # ""
    /\ Events("raise")[Len(Events("raise")) - 2].exc # raised.cause

\* every submission of the run returned a result
NoSubmissionFailed ==
    \A i \in 1..Len(Events("submit")) : Events("submit")[i].out.ok

\* C6: in a run where no submission fails, the final state holds the ids the
\* calls returned, animations is [walk, attack] with their ids, and
\* review_results approves static, walk, attack and variant with no errors.
C6_HappyPath ==
    (pc = "done" /\ NoSubmissionFailed) =>
        LET sub == Events("submit") IN
        /\ [i \in 1..Len(sub) |-> sub[i].service]
               = <<"text3d", "rigging", "animation", "animation", "retexture">>
        /\ state.static_task_id = sub[1].out.task_id
        /\ state.rigged_task_id = sub[2].out.task_id
        /\ sub[3].args.animation_id = "1" /\ sub[4].args.animation_id = "4"
        /\ state.animations =
               <<[name |-> "walk", task_id |-> sub[3].out.task_id],
                 [name |-> "attack", task_id |-> sub[4].out.task_id]>>
        /\ state.retexture_task_id = sub[5].out.task_id
        /\ DOMAIN state.review_results =
               {"static", "walk", "attack", "variant", "notes", "errors"}
        /\ \A v \in {"static", "walk", "attack", "variant"} :
              state.review_results[v].approved = TRUE
        /\ state.review_results.errors = <<>>
        /\ state.errors = <<>>
        /\ raised = None

\* a completed run of five submissions, none of which failed
C6_Witness ==
    /\ pc = "done"
    /\ NoSubmissionFailed
    /\ Len(log) = 15
    /\ state.retexture_task_id = TaskId(5)

InputFields == {"id", "species", "prompt", "retexture_prompt"}
StageOutputFields ==
    {"static_task_id", "rigged_task_id", "animations", "retexture_task_id"}
Fields == DOMAIN MeshyAssetState("", "", "", "")

\* the step is a failed attempt of a stage
AttemptFails == Len(Events("raise"))' = Len(Events("raise")) + 1

\* C7: in every step of a run the input fields keep their values; an output
\* field that has been set keeps its value; the stage that runs changes no
\* field but its own output field and errors; and a failed attempt changes no
\* field but errors.
C7_FieldsMonotone ==
    [][/\ \A f \in InputFields : state'[f] = state[f]
       /\ \A f \in StageOutputFields :
             state[f] # InitialValue(f) => state'[f] = state[f]
       /\ \A f \in Fields \ {"errors", OutputField(pc)} : state'[f] = state[f]
       /\ AttemptFails => \A f \in Fields \ {"errors"} : state'[f] = state[f]
      ]_vars

\* a completed run in which animate_variants failed once after its walk
\* submission had succeeded, and retexture_variant failed once
C7_Witness ==
    /\ pc = "done"
    /\ Calls("animate_variants") = 2
    /\ Calls("retexture_variant") = 2
    /\ Len(Events("submit")) = 8
    /\ state.animations # <<>>

\* the string a failed attempt of a stage logs (lines 146, 167, 203, 225)
FailureMessage(e) == e.func \o " failed: " \o e.exc.msg

\* C8: state.errors holds, in order, one string for every failed stage attempt
\* so far, followed by one for every sentinel review substituted: its length
\* is the number of failed attempts plus the number of substitutions, and a
\* stage that exhausted its three attempts has put three entries there.
C8_ErrorsLogged ==
    LET r == Events("raise") IN
    /\ Len(state.errors) = Len(r) + Len(Events("sentinel"))
    /\ \A i \in 1..Len(r) : state.errors[i] = FailureMessage(r[i])
    /\ pc = "failed" =>
          /\ Len(EventsOf("raise", FailedStage)) = StageMaxAttempts
          /\ Len(state.errors) >= StageMaxAttempts
          /\ \A i \in 0..(StageMaxAttempts - 1) :
                state.errors[Len(state.errors) - i]
                    = FailureMessage([func |-> FailedStage,
                                      exc |-> r[Len(r) - i].exc])

\* rig_model exhausts its three attempts after generate_static_model had
\* failed twice: five entries
C8_Witness ==
    /\ pc = "failed"
    /\ FailedStage = "rig_model"
    /\ Len(state.errors) = 5
    /\ state.errors[1] = "generate_static_model failed: E2"
    /\ state.errors[5] = "rig_model failed: E1"

----------------------------------------------------------------------------
(* Claims about hitl_review on any state, under SpecReview.                *)

\* every entry of the animations list has a task id, and none is the sentinel
RealTaskIds(st) ==
    \A i \in 1..Len(st.animations) :
        /\ "task_id" \in DOMAIN st.animations[i]
        /\ st.animations[i].task_id # "missing"

\* how many of the two animations review looks for are not in the list
Missing(st) ==
    (IF Len(st.animations) < 1 THEN 1 ELSE 0)
    + (IF Len(st.animations) < 2 THEN 1 ELSE 0)

\* C9: _get_animation_task_id(index) raises AnimationStateError exactly when
\* index >= L, the length of the animations list; on a list of real task ids
\* hitl_review does not raise, returns a mapping with the entries static,
\* walk, attack, variant, notes and errors in which walk.approved = (L >= 1)
\* and attack.approved = (L >= 2), and appends one error per missing
\* animation.
C9_ReviewTolerant ==
    [][/\ \A index \in 0..MaxAnimations :
             LET got == _get_animation_task_id(state, index, "walk") IN
             /\ got.raised <=> index >= Len(state.animations)
             /\ got.raised => got.exc.type = "AnimationStateError"
       /\ (pc = "hitl_review" /\ RealTaskIds(state)) =>
             LET L == Len(state.animations) IN
             /\ pc' = "done" /\ raised' = None
             /\ DOMAIN returned' =
                    {"static", "walk", "attack", "variant", "notes", "errors"}
             /\ returned' = state'.review_results
             /\ returned'.walk.approved = (L >= 1)
             /\ returned'.attack.approved = (L >= 2)
             /\ returned'.static.approved /\ returned'.variant.approved
             /\ Len(state'.errors) = Len(state.errors) + Missing(state)
             /\ Len(Events("sentinel"))' = Missing(state)
      ]_vars

\* review has returned on an empty animations list: two sentinels, two errors
\* after the one the state held
C9_Witness ==
    /\ pc = "done"
    /\ state.animations = <<>>
    /\ Len(state.errors) = 3
    /\ ~returned.walk.approved /\ ~returned.attack.approved

\* C10 as stated: review changes no field of the state but review_results
C10_ReviewNeverMutates ==
    [][pc = "hitl_review" =>
          \A f \in Fields \ {"review_results"} : state'[f] = state[f]]_vars

\* the messages review logs for the animations missing from st, in order
MissingMessages(st) ==
    LET w == _get_animation_task_id(st, 0, "walk")
        a == _get_animation_task_id(st, 1, "attack")
    IN (IF w.raised THEN <<w.exc.msg>> ELSE <<>>)
       \o (IF a.raised THEN <<a.exc.msg>> ELSE <<>>)

\* C10, amended: review changes no field but review_results and errors, and
\* errors only by appending the message of each missing animation; with both
\* animations present errors is unchanged too.
C10_ReviewAppendsOnly ==
    [][pc = "hitl_review" =>
          /\ \A f \in Fields \ {"review_results", "errors"} :
                state'[f] = state[f]
          /\ state'.errors = state.errors \o MissingMessages(state)
          /\ Len(state.animations) >= 2 => state'.errors = state.errors
      ]_vars

\* review has returned on a state that held an error and lacked the attack
\* animation
C10_Witness ==
    /\ pc = "done"
    /\ Len(state.animations) = 1
    /\ Len(state.errors) = 2
    /\ state.errors[1] \in PriorErrors
    /\ Len(Events("sentinel")) = 1

\* C11: when hitl_review returns, review_results.errors equals state.errors
\* item for item, the entries review appended included; an append to
\* state.errors made afterwards leaves review_results.errors as it was.
C11_ErrorsCopied ==
    [][/\ pc = "hitl_review" =>
             /\ state'.review_results.errors = state'.errors
             /\ state'.review_results.errors
                    = state.errors \o MissingMessages(state)
       /\ pc = "done" =>
             /\ Len(state'.errors) = Len(state.errors) + 1
             /\ state'.review_results.errors = state.review_results.errors
      ]_vars

\* an error was logged after a review that had itself logged two: the copy
\* still ends with review's own entries
C11_Witness ==
    /\ pc = "done"
    /\ Len(Events("log_error")) = 1
    /\ Len(Events("sentinel")) = 2
    /\ Len(state.errors) = Len(state.review_results.errors) + 1
    /\ Len(state.review_results.errors) = 3

\* the places of the log where func is called
CallsAt(func) ==
    {p \in 1..Len(log) : log[p].ev = "call" /\ log[p].func = func}

\* the backoff sleeps of a stage: the sleeps that follow one of its failures
SleepsAt(func) ==
    {p \in 2..Len(log) : log[p].ev = "sleep" /\ log[p - 1].func = func}

SleepsOf(func) == Cardinality(SleepsAt(func))

\* the run is over
Terminated == pc \in {"done", "failed"}

\* C12: as long as every submission comes back, a run terminates: each
\* retry-wrapped stage is attempted at most 3 times and sleeps at most twice,
\* and the run ends with review_results populated or with
\* RetryExhaustedError raised.
C12_Terminates ==
    /\ [](\A func \in RetryWrapped :
             /\ Cardinality(CallsAt(func)) <= StageMaxAttempts
             /\ SleepsOf(func) <= StageMaxAttempts - 1)
    /\ [](Terminated =>
             \/ pc = "done" /\ state.review_results # EmptyDict
                            /\ raised = None
             \/ pc = "failed" /\ raised.type = "RetryExhaustedError"
                              /\ state.review_results = EmptyDict)
    /\ <>Terminated

\* a run that ended in review after a stage had used all three attempts and
\* both sleeps
C12_Witness ==
    /\ pc = "done"
    /\ state.review_results # EmptyDict
    /\ Calls("rig_model") = 3
    /\ SleepsOf("rig_model") = 2

\* the task id a stage returned, "" while it has not returned
ReturnedId(func) ==
    LET r == EventsOf("return", func) IN
    IF r = <<>> THEN "" ELSE r[1].value.task_id

\* the task ids the services handed out in attempts that then failed: an
\* attempt makes at most two submissions, so the failure of the attempt is
\* one of the two log entries after the submission
FailedAttemptIds ==
    {log[q].out.task_id :
        q \in {q \in 1..(Len(log) - 1) :
                 /\ log[q].ev = "submit" /\ log[q].out.ok
                 /\ \/ log[q + 1].ev = "raise"
                    \/ /\ log[q + 1].ev = "submit"
                       /\ q + 2 <= Len(log)
                       /\ log[q + 2].ev = "raise"}}

\* C13: every rigging submission carries the id generate_static_model
\* returned, every animation submission the id rig_model returned, every
\* retexture submission state.static_task_id, which is the id
\* generate_static_model returned; no submission carries an empty id or an id
\* handed out in a failed attempt.
C13_IdsThreaded ==
    LET static == ReturnedId("generate_static_model")
        rigged == ReturnedId("rig_model")
        stale == FailedAttemptIds
    IN
    \A p \in 1..Len(log) :
        (log[p].ev = "submit" /\ log[p].service # "text3d") =>
            LET id == log[p].args.model_id IN
            /\ id # ""
            /\ id \notin stale
            /\ log[p].service = "rigging" => id = static
            /\ log[p].service = "animation" => id = rigged
            /\ log[p].service = "retexture" =>
                  id = state.static_task_id /\ id = static

\* a completed run in which every stage was retried, animate_variants once
\* after its walk submission had been given an id
C13_Witness ==
    /\ pc = "done"
    /\ Calls("generate_static_model") = 2
    /\ Calls("rig_model") = 2
    /\ Calls("animate_variants") = 2
    /\ Calls("retexture_variant") = 2
    /\ FailedAttemptIds # {}

\* what animate_variants returned, <<>> while it has not
AnimateReturned == EventsOf("return", "animate_variants")

\* C14: animations has no entry or two, never one; it has two exactly when
\* animate_variants has returned, and they are walk and attack with the ids of
\* the attempt that returned.  So review, in a run, finds both animations: it
\* substitutes no sentinel, logs no AnimationStateError, and approves both.
C14_AnimationsAllOrNothing ==
    /\ Len(state.animations) \in {0, 2}
    /\ (state.animations # <<>>) <=> (AnimateReturned # <<>>)
    /\ state.animations # <<>> =>
          state.animations =
              <<[name |-> "walk",
                 task_id |-> AnimateReturned[1].value.walk.task_id],
                [name |-> "attack",
                 task_id |-> AnimateReturned[1].value.attack.task_id]>>
    /\ Events("sentinel") = <<>>
    /\ pc = "done" =>
          /\ Len(state.animations) = 2
          /\ Len(state.errors) = Len(Events("raise"))
          /\ state.review_results.walk.approved
          /\ state.review_results.attack.approved

\* a completed run in which an attempt of animate_variants failed on attack
\* after walk had been accepted
C14_Witness ==
    /\ pc = "done"
    /\ FailedAttemptIds # {}
    /\ Len(state.animations) = 2
    /\ Calls("animate_variants") = 3

\* the places of the log where an animation with this id is submitted
AnimationAt(animation_id) ==
    {p \in 1..Len(log) :
        /\ log[p].ev = "submit" /\ log[p].service = "animation"
        /\ log[p].args.animation_id = animation_id}

Max(S) == CHOOSE x \in S : \A y \in S : y <= x

\* C15: in an attempt of animate_variants walk is submitted first, and attack
\* only right after walk was accepted; a failed attack submission fails the
\* attempt, and the next attempt starts with walk again.  So there are at
\* least as many walk submissions as attack submissions, at most three of
\* each, and animations records the last pair only.
C15_WalkBeforeAttack ==
    LET walks == AnimationAt("1")
        attacks == AnimationAt("4")
    IN
    /\ \A p \in walks :
          log[p - 1].ev = "call" /\ log[p - 1].func = "animate_variants"
    /\ \A p \in attacks : (p - 1) \in walks /\ log[p - 1].out.ok
    /\ \A p \in attacks :
          ~log[p].out.ok =>
              /\ log[p + 1] = RaiseEv("animate_variants", log[p].out.error)
              /\ \A q \in attacks : q > p => (\E w \in walks : p < w /\ w < q)
    /\ Cardinality(walks) >= Cardinality(attacks)
    /\ Cardinality(walks) = Calls("animate_variants")
    /\ Cardinality(walks) <= StageMaxAttempts
    /\ AnimateReturned # <<>> =>
          /\ state.animations[1].task_id = log[Max(walks)].out.task_id
          /\ state.animations[2].task_id = log[Max(attacks)].out.task_id

\* animate_variants succeeded on its third attempt, having submitted three
\* walk and three attack animations
C15_Witness ==
    /\ AnimateReturned # <<>>
    /\ Cardinality(AnimationAt("1")) = 3
    /\ Cardinality(AnimationAt("4")) = 3
    /\ state.animations[1].task_id = log[Max(AnimationAt("1"))].out.task_id

----------------------------------------------------------------------------
(* Further claims about with_retry, under SpecRetry.                       *)

\* the class of e is none of the policy's retryable classes
NotRetryable(e) == (Mro(e.type) \cap policy.exceptions) = {}

C17_NoSleepAfterLastAttempt ==
    /\ \A p \in 1..Len(log) :
          log[p].ev = "sleep" =>
              IF p = Len(log) THEN pc = "op" /\ ENABLED NextRetry
              ELSE log[p + 1].ev = "call"
    /\ Len(Events("sleep")) <= policy.max_attempts - 1
    /\ (OpAlwaysFailedRetryable /\ pc = "failed") =>
          /\ Len(Events("sleep")) = policy.max_attempts - 1
          /\ Last(log).ev = "raise"
          /\ log[Len(log) - 1] = CallEv("op", policy.max_attempts)
          /\ raised.type = "RetryExhaustedError"

\* three failed attempts, two sleeps, and the failure of the third attempt
\* is the end of the log
C17_Witness ==
    /\ OpAlwaysFailedRetryable
    /\ pc = "failed"
    /\ policy.max_attempts = 3
    /\ Len(Events("sleep")) = 2
    /\ Len(log) = 8
    /\ Last(log).ev = "raise"

----------------------------------------------------------------------------
(* Further claims about a pipeline run and about review.                   *)

\* C18: in a completed run review_results.errors is empty exactly when no
\* stage attempt failed; a run in which an attempt failed and the stage then
\* succeeded ends with the four variants approved and the failures listed.
C18_RecoveredErrorsKept ==
    pc = "done" =>
        LET failures == Events("raise") IN
        /\ (state.review_results.errors = <<>>) <=> (failures = <<>>)
        /\ Len(state.review_results.errors) = Len(failures)
        /\ \A v \in {"static", "walk", "attack", "variant"} :
              state.review_results[v].approved

\* a completed run, all approved, that lists the one failure it recovered
\* from
C18_Witness ==
    /\ pc = "done"
    /\ Len(Events("raise")) = 1
    /\ state.review_results.errors = <<"rig_model failed: E2">>
    /\ state.review_results.walk.approved
    /\ state.review_results.variant.approved

\* review logged an AnimationStateError for the animation `name` at `index`
RecordedMissing(index, name) ==
    LET r == _get_animation_task_id(state, index, name) IN
    /\ r.raised
    /\ \E p \in 1..Len(log) : log[p] = SentinelEv(name)
    /\ \E i \in 1..Len(state.errors) : state.errors[i] = r.exc.msg

\* C19 as stated: once review has returned, walk is not approved only if
\* position 0 of animations is absent and review logged an error for it, and
\* attack likewise for position 1, whatever the task ids of the entries are.
C19_NotApprovedOnlyIfAbsent ==
    pc = "done" =>
        /\ ~state.review_results.walk.approved =>
              (Len(state.animations) <= 0 /\ RecordedMissing(0, "walk"))
        /\ ~state.review_results.attack.approved =>
              (Len(state.animations) <= 1 /\ RecordedMissing(1, "attack"))

====
